---------------------------- MODULE Spec2Model ----------------------------
(***************************************************************************)
(* Model of the Wordware streaming route (retrovisor/persona).             *)
(*                                                                         *)
(* The repository holds five near-duplicate versions of the POST handler.  *)
(* They are modelled side by side; the variable `variant` says which one   *)
(* serves the run:                                                         *)
(*   V1  src/src/app/api/wordware/route.ts  lines   7-187                  *)
(*   V2  src/src/app/api/wordware/route.ts  lines 195-364                  *)
(*   V3  src/src/app/api/wordware/route.ts  lines 372-545                  *)
(*   V4  src/unnamed/part_000               lines   7-188                  *)
(*   V5  src/unnamed/part_001               lines  15-265                  *)
(*                                                                         *)
(* Text is a sequence of characters, a character is a TLA+ string.  The    *)
(* upstream body is a sequence of bytes; every ASCII character is one byte *)
(* and the character U00E9 is the two bytes xC3 xA9.                       *)
(***************************************************************************)
EXTENDS Naturals, Sequences, FiniteSets

VARIABLES
  variant,              \* which version of POST serves the request
  full,                 \* request.json().full : the tier of the run
  pc,                   \* position of the handler
  response,             \* what POST returned to its caller
  db,                   \* the persisted user record
  user,                 \* const user = await getUser(...)
  sent,                 \* the events the upstream emits in this run
  upstream,             \* bytes of the upstream body not yet read
  pending,              \* TextDecoder: bytes of an unfinished character
  buffer,               \* let buffer
  finalOutput,          \* let finalOutput
  streamedContent,      \* let streamedContent (V1)
  chunkCount,           \* let chunkCount (V5)
  lastProcessedValue,   \* let lastProcessedValue (V5)
  updateAttempted,      \* let updateAttempted (V3, V4)
  updateSuccessful,     \* let updateSuccessful (V3, V4)
  client,               \* payloads enqueued on the client stream, in order
  closeCount,           \* number of controller.close() calls
  startRejected,        \* start() ended with an exception
  released,             \* number of reader.releaseLock() calls
  runResponse,          \* const runResponse = await fetch(...)
  cancelled,            \* the client has cancelled the stream it reads
  runs,                 \* two requests for one user, side by side
  tweets,               \* user.tweets
  request,              \* inputs.tweets of the call to the upstream
  sinceCreation,        \* Date.now() - user.createdAt.getTime(), in minutes
  log,                  \* history: the events processed, in order
  dbLog                 \* history: the updateUser calls, in order

vars == << variant, full, pc, response, db, user, sent, upstream, pending,
           buffer, finalOutput, streamedContent, chunkCount,
           lastProcessedValue, updateAttempted, updateSuccessful, client,
           closeCount, startRejected, released, runResponse,
           cancelled, runs, tweets, request, sinceCreation, log, dbLog >>

---------------------------------------------------------------------------
(* Bounds of the model *)

\* longest sequence of events the upstream emits in one run
MaxEvents == 2

\* most tweets of a user
MaxTweets == 2

---------------------------------------------------------------------------
(* Characters and bytes *)

LF == "LF"
SP == " "
U00E9 == "U00E9"
UFFFD == "UFFFD"
xC3 == "xC3"
xA9 == "xA9"

Variants == {"V1", "V2", "V3", "V4", "V5"}

\* the variants that keep the characters of a line in `buffer: string[]`
CharBufferVariants == {"V2", "V4", "V5"}

None == [type |-> "none"]

RECURSIVE Flatten(_)
Flatten(ss) == IF ss = << >> THEN << >> ELSE Head(ss) \o Flatten(Tail(ss))

\* TextEncoder: the bytes of a text
RECURSIVE Utf8Encode(_)
Utf8Encode(text) ==
  IF text = << >> THEN << >>
  ELSE (IF Head(text) = U00E9 THEN << xC3, xA9 >> ELSE << Head(text) >>)
       \o Utf8Encode(Tail(text))

\* TextDecoder.decode(value): every chunk is decoded on its own; a lead byte
\* without its continuation byte and a continuation byte without its lead
\* byte each become U+FFFD
RECURSIVE Utf8Decode(_)
Utf8Decode(bytes) ==
  IF bytes = << >> THEN << >>
  ELSE IF Head(bytes) = xC3
       THEN IF Len(bytes) >= 2 /\ bytes[2] = xA9
            THEN << U00E9 >> \o Utf8Decode(SubSeq(bytes, 3, Len(bytes)))
            ELSE << UFFFD >> \o Utf8Decode(Tail(bytes))
       ELSE IF Head(bytes) = xA9
            THEN << UFFFD >> \o Utf8Decode(Tail(bytes))
            ELSE << Head(bytes) >> \o Utf8Decode(Tail(bytes))

\* TextDecoder.decode(value, { stream: true }): a lead byte that ends the
\* chunk is kept for the next call
StreamHeld(held, bytes) ==
  LET all == held \o bytes
  IN  IF all # << >> /\ all[Len(all)] = xC3 THEN << xC3 >> ELSE << >>

StreamDecode(held, bytes) ==
  LET all == held \o bytes
      keep == StreamHeld(held, bytes)
  IN  Utf8Decode(SubSeq(all, 1, Len(all) - Len(keep)))

\* fault injection for C4: V1 decoding every chunk on its own
DecodeEachChunkAlone(v, held, bytes) == Utf8Decode(bytes)

\* decoder.decode(value[, { stream: true }]) as each variant calls it
Decode(v, held, bytes) ==
  IF v = "V1" THEN StreamDecode(held, bytes) ELSE Utf8Decode(bytes)

DecoderHeld(v, held, bytes) ==
  IF v = "V1" THEN StreamHeld(held, bytes) ELSE << >>

---------------------------------------------------------------------------
(* The wire protocol: one JSON object per line, {"value": {"type": ...}}.  *)
(* The text of a line is abbreviated to "{" fields "}": a generation event *)
(* is one character that stands for its state and label, a chunk event is  *)
(* the characters of its value, an outputs event is one character that     *)
(* stands for its values.output object.  As with JSON, no proper part of a *)
(* line is itself a line that parses.                                      *)

Generation(state, label) ==
  [type |-> "generation", state |-> state, label |-> label]

Chunk(value) == [type |-> "chunk", value |-> value]

Outputs(output) == [type |-> "outputs", output |-> output]

Malformed == [type |-> "malformed"]

Old == << "old" >>
New == << "new" >>
Undefined == << "undefined" >>

EmptyAnalysis == [k \in {} |-> Old]

\* the values.output object the upstream sends
Patch == [roast |-> New, about |-> New]

\* values.output of an outputs event that has none
Missing == [missing |-> TRUE]

\* what { ...output } spreads
OutputObject(output) == IF output = Missing THEN EmptyAnalysis ELSE output

GenerationChars == {"S", "E", "s", "e"}

GenerationChar(e) ==
  IF e.label = "output"
  THEN IF e.state = "start" THEN "S" ELSE "E"
  ELSE IF e.state = "start" THEN "s" ELSE "e"

GenerationOf(c) ==
  Generation(IF c \in {"S", "s"} THEN "start" ELSE "end",
             IF c \in {"S", "E"} THEN "output" ELSE "other")

PayloadChars == {"a", U00E9, UFFFD}

\* the text of the line the upstream writes for an event, without its newline
LineOf(e) ==
  IF e.type = "generation" THEN << "{", GenerationChar(e), "}" >>
  ELSE IF e.type = "chunk" THEN << "{" >> \o e.value \o << "}" >>
  ELSE IF e.type = "outputs"
       THEN << "{", IF e.output = Missing THEN "o" ELSE "O", "}" >>
       ELSE << "x" >>

RECURSIVE WireOf(_)
WireOf(events) ==
  IF events = << >> THEN << >>
  ELSE Utf8Encode(LineOf(Head(events)) \o << LF >>) \o WireOf(Tail(events))

\* JSON.parse(line) followed by the reads of content.value: the event of a
\* line, or Malformed where the code throws
ParseText(line) ==
  IF Len(line) < 3 \/ line[1] # "{" \/ line[Len(line)] # "}"
  THEN Malformed
  ELSE LET inner == SubSeq(line, 2, Len(line) - 1)
       IN  IF Len(inner) = 1 /\ inner[1] \in GenerationChars
           THEN GenerationOf(inner[1])
           ELSE IF \A i \in 1..Len(inner) : inner[i] \in PayloadChars
                THEN Chunk(inner)
                ELSE IF inner = << "O" >> THEN Outputs(Patch)
                ELSE IF inner = << "o" >> THEN Outputs(Missing)
                     ELSE Malformed

\* String.prototype.trimEnd and trim
RECURSIVE TrimEnd(_)
TrimEnd(text) ==
  IF text # << >> /\ text[Len(text)] = SP
  THEN TrimEnd(SubSeq(text, 1, Len(text) - 1))
  ELSE text

RECURSIVE TrimStart(_)
TrimStart(text) ==
  IF text # << >> /\ Head(text) = SP THEN TrimStart(Tail(text)) ELSE text

Trim(text) == TrimStart(TrimEnd(text))

\* buffer.indexOf('\n'), counted from 1; 0 when there is none
IndexOfLF(text) ==
  IF \E i \in 1..Len(text) : text[i] = LF
  THEN CHOOSE i \in 1..Len(text) :
         text[i] = LF /\ \A j \in 1..(i - 1) : text[j] # LF
  ELSE 0

\* chunk.split('\n')
RECURSIVE Split(_)
Split(text) ==
  LET i == IndexOfLF(text)
  IN  IF i = 0 THEN << text >>
      ELSE << SubSeq(text, 1, i - 1) >>
           \o Split(SubSeq(text, i + 1, Len(text)))

\* list.join(sep)
RECURSIVE Join(_, _)
Join(list, sep) ==
  IF list = << >> THEN << >>
  ELSE IF Len(list) = 1 THEN Head(list)
       ELSE Head(list) \o sep \o Join(Tail(list), sep)

\* .filter(line => line.trim() !== '')
RECURSIVE NonBlank(_)
NonBlank(lines) ==
  IF lines = << >> THEN << >>
  ELSE (IF Trim(Head(lines)) # << >> THEN << Head(lines) >> ELSE << >>)
       \o NonBlank(Tail(lines))

\* fault injection for C18: a line that does not parse ends the output
ParseLineClosingOutput(line) ==
  IF ParseText(Trim(line)) = Malformed THEN Generation("end", "output")
  ELSE ParseText(Trim(line))

\* JSON.parse skips the white space around the value
ParseLine(line) == ParseText(Trim(line))

---------------------------------------------------------------------------
(* The document sent to the upstream *)

\* request.json().username
Username == << "u" >>

\* the tweets of a user: a retweet or not, with no text, one line or two
TweetSet ==
  [isRetweet : BOOLEAN, author : {Undefined}, createdAt : {<< "t" >>},
   text : {Undefined, << "a" >>, << "a", LF, "b" >>}]

TweetSeqs == UNION { [1..n -> TweetSet] : n \in 0..MaxTweets }

\* formatTweet; the counts of a tweet are absent and print as 0
FormatTweet(tweet) ==
  LET isRetweet == IF tweet.isRetweet THEN << "RT " >> ELSE << >>
      author == IF tweet.author = Undefined THEN Username ELSE tweet.author
      text == IF tweet.text = Undefined THEN << >> ELSE tweet.text
      formattedText == Join(Split(text), << LF, "> " >>)
  IN  << "**" >> \o isRetweet \o << "@" >> \o author \o << " - " >>
        \o tweet.createdAt \o << "**", LF, LF, "> " >> \o formattedText
        \o << LF, LF, "*retweets: 0, replies: 0, likes: 0, quotes: 0, views: 0*" >>

\* fault injection for C20: a document that is not empty for no tweets
TweetsMarkdownOrUndefined(list) ==
  IF list = << >> THEN Undefined
  ELSE Join([i \in 1..Len(list) |-> FormatTweet(list[i])],
            << LF, "---", LF, LF >>)

\* tweets.map(formatTweet).join('\n---\n\n')
TweetsMarkdown(list) ==
  Join([i \in 1..Len(list) |-> FormatTweet(list[i])], << LF, "---", LF, LF >>)

\* inputs of the body of the fetch
Inputs(list) == [tweets |-> << "Tweets: " >> \o TweetsMarkdown(list)]

---------------------------------------------------------------------------
(* The user record and the analysis *)

\* { ...a, ...b }
Spread(a, b) ==
  [k \in DOMAIN a \cup DOMAIN b |-> IF k \in DOMAIN b THEN b[k] ELSE a[k]]

\* output.roast, output.emojis: undefined when the key is absent
Field(output, k) == IF k \in DOMAIN output THEN output[k] ELSE Undefined

StartedKey(tier) == IF tier THEN "paidWordwareStarted" ELSE "wordwareStarted"
CompletedKey(tier) ==
  IF tier THEN "paidWordwareCompleted" ELSE "wordwareCompleted"

UserRecord(ws, wc, ps, pcd, analysis) ==
  [wordwareStarted |-> ws, wordwareCompleted |-> wc,
   paidWordwareStarted |-> ps, paidWordwareCompleted |-> pcd,
   analysis |-> analysis]

\* the records a request can find: a new user, a user with both tiers
\* started and an analysis, a user whose standard tier is completed and
\* whose full tier has not started
InitialRecords ==
  { UserRecord(FALSE, FALSE, FALSE, FALSE, EmptyAnalysis),
    UserRecord(TRUE, FALSE, TRUE, FALSE, [about |-> Old, fullContent |-> Old]),
    UserRecord(TRUE, TRUE, FALSE, FALSE, [roast |-> Old, about |-> Old]) }

\* updateUser({ user }): the record as written replaces the stored one
Persist(stored, arg) ==
  [k \in DOMAIN stored |-> IF k \in DOMAIN arg THEN arg[k] ELSE stored[k]]

\* fault injection for C9: a merge that joins the old and the new value of
\* a key instead of overwriting
AnalysisToSaveJoining(v, tier, u, output, content) ==
  [k \in DOMAIN u.analysis \cup DOMAIN output |->
     IF k \in DOMAIN u.analysis /\ k \in DOMAIN output
     THEN u.analysis[k] \o output[k]
     ELSE IF k \in DOMAIN output THEN output[k] ELSE u.analysis[k]]

\* the analysis of the finalization save, as each variant builds it
AnalysisToSave(v, tier, u, output, content) ==
  IF v = "V1"
  THEN Spread(Spread(u.analysis, OutputObject(output)),
              [fullContent |-> content])
  ELSE IF v = "V5"
       THEN IF tier THEN output
            ELSE Spread(u.analysis, [roast |-> Field(output, "roast"),
                                     emojis |-> Field(output, "emojis")])
       ELSE Spread(u.analysis, OutputObject(output))

\* fault injection for C5: a status object without the started flag
StatusObjectCompletedOnly(tier, value) ==
  IF tier THEN [paidWordwareCompleted |-> value]
  ELSE [wordwareCompleted |-> value]

\* statusObject
StatusObject(tier, value) ==
  IF tier
  THEN [paidWordwareStarted |-> value, paidWordwareCompleted |-> value]
  ELSE [wordwareStarted |-> value, wordwareCompleted |-> value]

\* the argument of the finalization save
SaveArg(v, tier, u, output, content) ==
  Spread(Spread(u, StatusObject(tier, TRUE)),
         [analysis |-> AnalysisToSave(v, tier, u, output, content)])

\* fault injection for C28: a compensating write that leaves the started
\* flag as the request found it
RevertArgCompletedOnly(tier, u) ==
  Spread(u, StatusObjectCompletedOnly(tier, FALSE))

\* the argument of the compensating write
RevertArg(tier, u) == Spread(u, StatusObject(tier, FALSE))

\* the argument of the write that marks the run started
StartedArg(v, tier, u) ==
  IF v \in {"V1", "V5"}
  THEN Spread(u, IF tier THEN [paidWordwareStarted |-> TRUE]
                 ELSE [wordwareStarted |-> TRUE])
  ELSE Spread(u, [wordwareStarted |-> TRUE])

---------------------------------------------------------------------------
(* Processing of one chunk.  The locals of start(controller) that a chunk  *)
(* can change travel in a record s.  s.ncall counts the finalizations of   *)
(* the step and outcomes[i] says which of the updateUser calls of the i-th *)
(* one throw; s.threw says that the last updateUser call threw.            *)

Locals ==
  [buffer |-> buffer, finalOutput |-> finalOutput,
   streamedContent |-> streamedContent,
   lastProcessedValue |-> lastProcessedValue,
   updateAttempted |-> updateAttempted,
   updateSuccessful |-> updateSuccessful,
   client |-> client, db |-> db, log |-> log, dbLog |-> dbLog,
   cancelled |-> cancelled, ncall |-> 0, threw |-> FALSE]

\* what the persistence layer does with the calls of one finalization
Outcomes == {"ok", "saveThrows", "bothThrow"}

\* await updateUser({ user: arg }); ok: the call does not throw
UpdateUser(s, kind, arg, output, ok) ==
  LET stored == IF ok THEN Persist(s.db, arg) ELSE s.db
  IN  [s EXCEPT !.threw = ~ok, !.db = stored,
                !.dbLog = Append(@, [kind |-> kind, ok |-> ok, arg |-> arg,
                                     before |-> s.db, after |-> stored,
                                     output |-> output,
                                     content |-> s.streamedContent])]

\* fault injection for C6: the save without its catch block
HandleFinalOutputNoCatch(s, v, tier, u, output, outcomes) ==
  UpdateUser([s EXCEPT !.ncall = @ + 1], "save",
             SaveArg(v, tier, u, output, s.streamedContent),
             output, outcomes[s.ncall + 1] = "ok")

\* whether the try block throws before it calls updateUser: V1 and V3 log
\* Object.keys(output), V5 reads output.roast for the standard tier
ThrowsBeforeSave(v, tier, output) ==
  output = Missing /\ (v \in {"V1", "V3"} \/ (v = "V5" /\ ~tier))

\* try { updateUser(save) } catch { updateUser(revert) }: handleFinalOutput,
\* saveAnalysisAndUpdateUser and the inline code of V2, V3 and V4
HandleFinalOutput(s, v, tier, u, output, outcomes) ==
  LET n == s.ncall + 1
      saved == UpdateUser([s EXCEPT !.ncall = n], "save",
                          SaveArg(v, tier, u, output, s.streamedContent),
                          output, outcomes[n] = "ok")
  IN  IF ThrowsBeforeSave(v, tier, output)
      THEN UpdateUser([s EXCEPT !.ncall = n], "revert", RevertArg(tier, u),
                      output, outcomes[n] # "bothThrow")
      ELSE IF ~saved.threw THEN saved
      ELSE UpdateUser(saved, "revert", RevertArg(tier, u), output,
                      outcomes[n] = "saveThrows")

\* finalOutput after a generation event
FinalOutputAfter(v, flag, e) ==
  IF v \in {"V2", "V5"}
  THEN IF e.label = "output" THEN e.state = "start" ELSE flag
  ELSE e.state = "start" /\ e.label = "output"

\* controller.enqueue(value.value ?? '')
Enqueue(queue, value) == Append(queue, value)

\* whether a chunk event is enqueued on the client stream
Relayed(v, flag) == IF v = "V5" THEN TRUE ELSE flag

FORCE_FINAL_OUTPUT_AFTER == 50

\* the body of the try block that handles one line.  Once the client has
\* cancelled the stream controller.enqueue throws, which the catch block of
\* the line logs
ProcessLine(s, v, tier, u, count, line, outcomes) ==
  LET e == ParseLine(line)
      entry(sentOn) == [event |-> e, flag |-> s.finalOutput,
                        relayed |-> sentOn]
      logged == [s EXCEPT !.threw = FALSE,
                          !.log = Append(@, entry(FALSE))]
      valve(r) == IF v = "V5" /\ ~r.threw /\ ~r.finalOutput
                     /\ count >= FORCE_FINAL_OUTPUT_AFTER
                  THEN [r EXCEPT !.finalOutput = TRUE] ELSE r
  IN  IF e = Malformed THEN s
      ELSE IF e.type = "generation"
      THEN valve([logged EXCEPT
                    !.finalOutput = FinalOutputAfter(v, s.finalOutput, e)])
      ELSE IF e.type = "chunk"
      THEN IF Relayed(v, s.finalOutput)
           THEN IF s.cancelled
                THEN [logged EXCEPT
                        !.streamedContent =
                           IF v = "V1" THEN @ \o e.value ELSE @]
                ELSE valve([logged EXCEPT
                              !.streamedContent =
                                 IF v = "V1" THEN @ \o e.value ELSE @,
                              !.client = Enqueue(@, e.value),
                              !.log = Append(s.log, entry(TRUE))])
           ELSE valve(logged)
      ELSE LET marked ==
                 [logged EXCEPT
                    !.lastProcessedValue = IF v = "V5" THEN e ELSE @,
                    !.updateAttempted = IF v \in {"V3", "V4"} THEN TRUE ELSE @]
               done == HandleFinalOutput(marked, v, tier, u, e.output, outcomes)
               saved == done.dbLog[Len(done.dbLog)].kind = "save"
           IN  valve([done EXCEPT
                        !.updateSuccessful =
                           IF v \in {"V3", "V4"} THEN saved ELSE @])

\* V1: while ((newlineIndex = buffer.indexOf('\n')) !== -1) { ... }
RECURSIVE LineLoop(_, _, _, _, _, _)
LineLoop(s, v, tier, u, count, outcomes) ==
  LET i == IndexOfLF(s.buffer)
      line == Trim(SubSeq(s.buffer, 1, i - 1))
      cut == [s EXCEPT !.buffer = SubSeq(@, i + 1, Len(@))]
  IN  IF i = 0 THEN s
      ELSE LineLoop(IF line # << >>
                    THEN ProcessLine(cut, v, tier, u, count, line, outcomes)
                    ELSE cut,
                    v, tier, u, count, outcomes)

\* V2, V4, V5: for (let i = 0; i < chunk.length; ++i) { ... }
RECURSIVE CharLoop(_, _, _, _, _, _, _)
CharLoop(s, v, tier, u, count, text, outcomes) ==
  IF text = << >> THEN s
  ELSE IF Head(text) # LF
  THEN CharLoop([s EXCEPT !.buffer = Append(@, Head(text))],
                v, tier, u, count, Tail(text), outcomes)
  ELSE CHOOSE after \in
         { CharLoop([r EXCEPT !.buffer = << >>],
                    v, tier, u, count, Tail(text), outcomes) :
             r \in { ProcessLine(s, v, tier, u, count, TrimEnd(s.buffer),
                                 outcomes) } } : TRUE

\* V3: for (const line of lines) { ... }
RECURSIVE ForLines(_, _, _, _, _, _, _)
ForLines(s, v, tier, u, count, lines, outcomes) ==
  IF lines = << >> THEN s
  ELSE ForLines([ProcessLine(s, v, tier, u, count, Head(lines), outcomes)
                   EXCEPT !.buffer = << >>],
                v, tier, u, count, Tail(lines), outcomes)

\* one pass of the while (true) loop with a chunk read
ProcessChunk(s, v, tier, u, count, text, outcomes) ==
  IF v = "V1"
  THEN LineLoop([s EXCEPT !.buffer = @ \o text], v, tier, u, count, outcomes)
  ELSE IF v = "V3"
       THEN ForLines(s, v, tier, u, count, NonBlank(Split(text)), outcomes)
       ELSE CharLoop(s, v, tier, u, count, text, outcomes)

---------------------------------------------------------------------------
(* The run *)

\* 3 * 60 * 1000 ms, in minutes
CooldownMinutes == 3

\* largest age of the user record, in minutes, a request is tried with
MaxElapsedMinutes == 4

EventSet ==
  { Generation(st, lb) : st \in {"start", "end"}, lb \in {"output", "other"} }
    \cup { Chunk(<< "a" >>), Chunk(<< U00E9 >>) }
    \cup { Outputs(Patch), Malformed }

EventSeqs == UNION { [1..n -> EventSet] : n \in 0..MaxEvents }

\* blank lines ahead of the first event
Blanks(n) == [i \in 1..n |-> LF]

\* the start of a request of a user whose tweets are one of `lists`, with
\* an upstream that emits one of `seqs` after `blank` blank lines
InitFor(lists, seqs, blank) ==
  /\ tweets \in lists
  /\ request = None
  /\ cancelled = FALSE
  /\ runs = << >>
  /\ variant \in Variants
  /\ full \in BOOLEAN
  /\ db \in InitialRecords
  /\ sent \in seqs
  /\ upstream = Blanks(blank) \o WireOf(sent)
  /\ pc = "request"
  /\ response = "none"
  /\ user = None
  /\ pending = << >>
  /\ buffer = << >>
  /\ finalOutput = FALSE
  /\ streamedContent = << >>
  /\ chunkCount = 0
  /\ lastProcessedValue = None
  /\ updateAttempted = FALSE
  /\ updateSuccessful = FALSE
  /\ client = << >>
  /\ closeCount = 0
  /\ startRejected = FALSE
  /\ released = 0
  /\ runResponse = None
  /\ sinceCreation = 0
  /\ log = << >>
  /\ dbLog = << >>

InitWith(lists) == InitFor(lists, EventSeqs, 0)

\* The tweets only make the document of the call to the upstream: the runs
\* of Spec are those of a user without tweets, FormatSpec varies the tweets
Init == InitWith({<< >>})

\* fault injection for C17: a cooldown that still holds at 3 minutes
RejectsThroughCooldown(tier, u, elapsed) ==
  u[CompletedKey(tier)] \/ (u[StartedKey(tier)] /\ elapsed <= CooldownMinutes)

\* the admission check of a tier on a record that is `elapsed` minutes old
Rejects(tier, u, elapsed) ==
  u[CompletedKey(tier)] \/ (u[StartedKey(tier)] /\ elapsed < CooldownMinutes)

\* getUser and the two admission checks
Admit ==
  /\ pc = "request"
  /\ user' = db
  /\ \E age \in 0..MaxElapsedMinutes :
       /\ sinceCreation' = age
       /\ IF Rejects(full, db, age)
          THEN pc' = "returned" /\ response' = "alreadyStarted"
          ELSE pc' = "admitted" /\ response' = response
  /\ UNCHANGED << variant, full, db, sent, upstream, pending, buffer,
                  finalOutput, streamedContent, chunkCount,
                  lastProcessedValue, updateAttempted, updateSuccessful,
                  client, closeCount, startRejected, released, runResponse,
                  log, dbLog,
                  tweets, request,
                  cancelled, runs >>

\* fault injection for C15: only the missing body is refused
RefusalWithoutBodyOnly(v, ok, body) == IF ~body THEN "noReader" ELSE "none"

\* what POST answers to a response of the upstream that it does not stream;
\* "none" when it goes on.  V5 calls runResponse.text() for its log line
\* after getReader() has locked the body, which throws when there is a body
Refusal(v, ok, body) ==
  IF v \in {"V1", "V4"}
  THEN IF ~ok THEN "upstreamError" ELSE "none"
  ELSE IF v = "V3"
       THEN IF ~ok THEN "upstreamError"
            ELSE IF ~body THEN "noReader" ELSE "none"
       ELSE IF body /\ ok THEN "none"
            ELSE IF v = "V5" /\ body THEN "threw" ELSE "noReader"

\* fetch, the checks of its response, the write that marks the run started,
\* and the start of the stream up to its first read
Invoke ==
  /\ pc = "admitted"
  /\ sinceCreation' = 0
  /\ request' = Inputs(tweets)
  /\ \E ok \in BOOLEAN, body \in BOOLEAN, written \in BOOLEAN :
       /\ runResponse' = [ok |-> ok, body |-> body]
       /\ \E refusal \in { Refusal(variant, ok, body) },
             started \in { UpdateUser(Locals, "started",
                                      StartedArg(variant, full, user),
                                      EmptyAnalysis, written) } :
           IF refusal # "none"
           THEN /\ pc' = "returned"
                /\ response' = refusal
                /\ UNCHANGED << db, dbLog, closeCount >>
           ELSE /\ db' = started.db
                /\ dbLog' = started.dbLog
                /\ IF started.threw
                   THEN /\ pc' = "returned"
                        /\ response' = "threw"
                        /\ closeCount' = closeCount
                   ELSE /\ response' = "stream"
                        /\ IF body
                           THEN pc' = "streaming" /\ closeCount' = closeCount
                           ELSE pc' = "done" /\ closeCount' = closeCount + 1
  /\ UNCHANGED << variant, full, user, sent, upstream, pending, buffer,
                  finalOutput, streamedContent, chunkCount,
                  lastProcessedValue, updateAttempted, updateSuccessful,
                  client, startRejected, released, log,
                  tweets,
                  cancelled, runs >>

\* the most outputs lines that some bytes can complete
CallsIn(bytes) ==
  Cardinality({ i \in 1..Len(bytes) : bytes[i] \in {"O", "o"} })

\* chunkCount++ of V5 (V1 counts the chunks for its log lines only).  The
\* only read of chunkCount is the test chunkCount >= FORCE_FINAL_OUTPUT_AFTER,
\* and every later read takes at least one of the `rest` bytes left: the
\* count is kept as long as the test can still become true in the run and
\* is left as it is once it cannot, which gives the test the same value
CountAfterRead(v, count, rest) ==
  IF v = "V5" /\ count + 1 + Len(rest) >= FORCE_FINAL_OUTPUT_AFTER
  THEN count + 1 ELSE count

\* reader.read() gives a chunk, which is decoded and processed
Read ==
  /\ pc = "streaming"
  /\ upstream # << >>
  /\ \E n \in 1..Len(upstream) :
       \E value \in { SubSeq(upstream, 1, n) } :
         \E outcomes \in [1..(CallsIn(buffer) + CallsIn(value)) -> Outcomes] :
           \E r \in { ProcessChunk(Locals, variant, full, user,
                                   CountAfterRead(variant, chunkCount,
                                     SubSeq(upstream, n + 1, Len(upstream))),
                                   Decode(variant, pending, value), outcomes) } :
                 /\ upstream' = SubSeq(upstream, n + 1, Len(upstream))
                 /\ pending' = DecoderHeld(variant, pending, value)
                 /\ chunkCount' =
                      CountAfterRead(variant, chunkCount,
                                     SubSeq(upstream, n + 1, Len(upstream)))
                 /\ buffer' = r.buffer
                 /\ finalOutput' = r.finalOutput
                 /\ streamedContent' = r.streamedContent
                 /\ lastProcessedValue' = r.lastProcessedValue
                 /\ updateAttempted' = r.updateAttempted
                 /\ updateSuccessful' = r.updateSuccessful
                 /\ client' = r.client
                 /\ db' = r.db
                 /\ log' = r.log
                 /\ dbLog' = r.dbLog
  /\ UNCHANGED << variant, full, pc, response, user, sent, closeCount,
                  startRejected, released, runResponse,
                  sinceCreation,
                  tweets, request,
                  cancelled, runs >>

\* V5: the saves of the end of the stream: the one before controller.close()
\* and the one of the finally block
EndSaves(s, tier, u, outcomes) ==
  LET first == HandleFinalOutput(s, "V5", tier, u,
                                 s.lastProcessedValue.output, outcomes)
      second == HandleFinalOutput(first, "V5", tier, u,
                                  s.lastProcessedValue.output, outcomes)
  IN  [closed |-> ~first.threw, final |-> second]

\* reader.read() gives done.  controller.close() throws on a stream that
\* the client has cancelled: start() rejects where no catch block is around
\* the call (the finally block of V1 and V4, the try block of V3)
EndOfStream ==
  /\ pc = "streaming"
  /\ upstream = << >>
  /\ pc' = "done"
  /\ IF variant = "V5" /\ lastProcessedValue # None
     THEN \E outcomes \in [1..2 -> Outcomes] :
            \E e \in { EndSaves(Locals, full, user, outcomes) } :
                /\ db' = e.final.db
                /\ dbLog' = e.final.dbLog
                /\ closeCount' = IF e.closed THEN closeCount + 1
                                 ELSE closeCount
                /\ startRejected' = e.final.threw
                /\ released' = IF e.final.threw THEN released
                               ELSE released + 1
     ELSE /\ closeCount' = closeCount + 1
          /\ released' = IF variant \in {"V2", "V3", "V5"}
                         THEN released + 1 ELSE released
          /\ startRejected' = (cancelled /\ variant \in {"V1", "V3", "V4"})
          /\ UNCHANGED << db, dbLog >>
  /\ UNCHANGED << variant, full, response, user, sent, upstream, pending,
                  buffer, finalOutput, streamedContent, chunkCount,
                  lastProcessedValue, updateAttempted, updateSuccessful,
                  client, runResponse, sinceCreation, log,
                  tweets, request,
                  cancelled, runs >>

\* reader.read() rejects: the catch and finally blocks of start(controller).
\* V1, V4: the error is logged and the stream closed; V2: the error is
\* logged and the reader released; V3 has no catch block, the reader is
\* released and start() rejects; V5: the error is logged, the finally block
\* saves lastProcessedValue again and then releases the reader
ReadError ==
  /\ pc = "streaming"
  /\ pc' = "done"
  /\ IF variant = "V5" /\ lastProcessedValue # None
     THEN \E outcomes \in [1..1 -> Outcomes] :
            \E r \in { HandleFinalOutput(Locals, "V5", full, user,
                                         lastProcessedValue.output,
                                         outcomes) } :
                /\ db' = r.db
                /\ dbLog' = r.dbLog
                /\ startRejected' = r.threw
                /\ released' = IF r.threw THEN released ELSE released + 1
                /\ closeCount' = closeCount
     ELSE /\ closeCount' = IF variant \in {"V1", "V4"} THEN closeCount + 1
                           ELSE closeCount
          /\ released' = IF variant \in {"V2", "V3", "V5"}
                         THEN released + 1 ELSE released
          /\ startRejected' =
               (variant = "V3" \/ (cancelled /\ variant \in {"V1", "V4"}))
          /\ UNCHANGED << db, dbLog >>
  /\ UNCHANGED << variant, full, response, user, sent, upstream, pending,
                  buffer, finalOutput, streamedContent, chunkCount,
                  lastProcessedValue, updateAttempted, updateSuccessful,
                  client, runResponse, sinceCreation, log,
                  tweets, request,
                  cancelled, runs >>

\* the upstream sends nothing more and does not end: reader.read() stays
\* pending
Stall ==
  /\ pc = "streaming"
  /\ pc' = "stalled"
  /\ UNCHANGED << variant, full, response, db, user, sent, upstream, pending,
                  buffer, finalOutput, streamedContent, chunkCount,
                  lastProcessedValue, updateAttempted, updateSuccessful,
                  client, closeCount, startRejected, released, runResponse,
                  sinceCreation, log, dbLog,
                  tweets, request,
                  cancelled, runs >>

\* export const maxDuration = 300: the platform ends the invocation after
\* 300 seconds; no timer, abort signal or handler of the route runs
MaxDuration ==
  /\ pc = "stalled"
  /\ pc' = "killed"
  /\ UNCHANGED << variant, full, response, db, user, sent, upstream, pending,
                  buffer, finalOutput, streamedContent, chunkCount,
                  lastProcessedValue, updateAttempted, updateSuccessful,
                  client, closeCount, startRejected, released, runResponse,
                  sinceCreation, log, dbLog,
                  tweets, request,
                  cancelled, runs >>

Next ==
  \/ Admit
  \/ Invoke
  \/ Read
  \/ EndOfStream
  \/ ReadError
  \/ Stall
  \/ MaxDuration

Spec == Init /\ [][Next]_vars

\* The runs of a new user on the standard tier whose upstream emits at most
\* one event
ShortInit ==
  /\ Init
  /\ ~full
  /\ db = UserRecord(FALSE, FALSE, FALSE, FALSE, EmptyAnalysis)
  /\ Len(sent) <= 1

\* The handler is not suspended for ever before its first read, and the
\* platform enforces maxDuration on a run that hangs.  Nothing obliges the
\* upstream to send, end or fail: the reads have no fairness
\* the client stops reading: the stream of the Response is cancelled.  No
\* variant passes a cancel() callback or reads request.signal
Disconnect ==
  /\ pc = "streaming"
  /\ ~cancelled
  /\ cancelled' = TRUE
  /\ UNCHANGED << variant, full, pc, response, db, user, sent, upstream,
                  pending, buffer, finalOutput, streamedContent, chunkCount,
                  lastProcessedValue, updateAttempted, updateSuccessful,
                  client, closeCount, startRejected, released, runResponse,
                  runs, tweets, request, sinceCreation, log, dbLog >>

\* the events of the runs of EdgeSpec
EdgeEvents == { Generation("start", "output"), Chunk(<< "a" >>), Outputs(Patch) }

EdgeSeqs ==
  UNION { [1..n -> EdgeEvents] : n \in 0..(MaxEvents + 1) }
    \cup { << Outputs(Missing) >> }

\* The runs of a new user with one more event, an outputs event that may
\* lack values.output, and a client that may disconnect
EdgeInit ==
  /\ InitFor({<< >>}, EdgeSeqs, 0)
  /\ db = UserRecord(FALSE, FALSE, FALSE, FALSE, EmptyAnalysis)

EdgeNext == Next \/ Disconnect

EdgeSpec == EdgeInit /\ [][EdgeNext]_vars

\* the events of the runs of ValveSpec
ValveEvents ==
  { Generation("start", "output"), Generation("end", "output"),
    Generation("start", "other"), Chunk(<< "a" >>) }

ValveSeqs == UNION { [1..n -> ValveEvents] : n \in 0..MaxEvents }

\* The runs of V5 for a new user on the standard tier whose upstream sends
\* FORCE_FINAL_OUTPUT_AFTER blank lines before its events: runs that can
\* take more reads than the threshold of the safety valve
ValveInit ==
  /\ InitFor({<< >>}, ValveSeqs, FORCE_FINAL_OUTPUT_AFTER)
  /\ variant = "V5"
  /\ ~full
  /\ db = UserRecord(FALSE, FALSE, FALSE, FALSE, EmptyAnalysis)

ValveSpec == ValveInit /\ [][Next]_vars

---------------------------------------------------------------------------
(* Several requests of one user.  Each request runs POST of route.ts; the  *)
(* requests share the stored record and nothing else.  runs[i] holds the   *)
(* tier of request i, its position, the record getUser returned to it, the *)
(* number of writes made before its admission check (at) and up to its     *)
(* last write (end), and how its finalization ended.  A step is the code   *)
(* between two awaits that touch the record.                               *)

\* the most requests that are made
MaxRequests == 2

\* the variables of the single run, which the requests leave alone
single ==
  << full, pc, response, user, sent, upstream, pending, buffer, finalOutput,
     streamedContent, chunkCount, lastProcessedValue, updateAttempted,
     updateSuccessful, client, closeCount, startRejected, released,
     runResponse, cancelled, tweets, request, sinceCreation, log >>

\* values.output of the outputs event of a run of a tier
PatchOf(tier) == IF tier THEN [about |-> New] ELSE [roast |-> New]

\* a request for a tier arrives
Arrive ==
  /\ Len(runs) < MaxRequests
  /\ \E tier \in BOOLEAN :
       runs' = Append(runs, [full |-> tier, pc |-> "request", user |-> None,
                             at |-> 0, end |-> 0, result |-> "none"])
  /\ UNCHANGED << variant, db, dbLog, single >>

\* getUser and the two admission checks of request i
AdmitRun ==
  \E i \in DOMAIN runs :
    /\ runs[i].pc = "request"
    /\ \E age \in 0..MaxElapsedMinutes :
         runs' = [runs EXCEPT ![i].user = db,
                              ![i].at = Len(dbLog),
                              ![i].pc = IF Rejects(runs[i].full, db, age)
                                        THEN "returned" ELSE "admitted"]
    /\ UNCHANGED << variant, db, dbLog, single >>

\* fetch, the check of its response and the write that marks run i started
InvokeRun ==
  \E i \in DOMAIN runs :
    /\ runs[i].pc = "admitted"
    /\ \E ok \in BOOLEAN, written \in BOOLEAN :
         \E started \in { UpdateUser(Locals, "started",
                                     StartedArg(variant, runs[i].full,
                                                runs[i].user),
                                     EmptyAnalysis, written) } :
           IF Refusal(variant, ok, TRUE) # "none"
           THEN /\ runs' = [runs EXCEPT ![i].pc = "returned"]
                /\ UNCHANGED << db, dbLog >>
           ELSE /\ db' = started.db
                /\ dbLog' = started.dbLog
                /\ runs' = [runs EXCEPT
                              ![i].end = Len(started.dbLog),
                              ![i].pc = IF started.threw THEN "returned"
                                        ELSE "streaming"]
    /\ UNCHANGED << variant, single >>

\* the outputs event of run i arrives: handleFinalOutput
FinalizeRun ==
  \E i \in DOMAIN runs :
    /\ runs[i].pc = "streaming"
    /\ \E outcome \in Outcomes :
         \E r \in { HandleFinalOutput(Locals, variant, runs[i].full,
                                      runs[i].user, PatchOf(runs[i].full),
                                      << outcome >>) } :
           /\ db' = r.db
           /\ dbLog' = r.dbLog
           /\ runs' = [runs EXCEPT
                         ![i].pc = "done",
                         ![i].end = Len(r.dbLog),
                         ![i].result = IF outcome = "ok" THEN "saved"
                                       ELSE IF outcome = "saveThrows"
                                            THEN "reverted" ELSE "failed"]
    /\ UNCHANGED << variant, single >>

\* the stream of run i ends without an outputs event
EndRun ==
  \E i \in DOMAIN runs :
    /\ runs[i].pc = "streaming"
    /\ runs' = [runs EXCEPT ![i].pc = "done"]
    /\ UNCHANGED << variant, db, dbLog, single >>

\* The requests of one user against POST of route.ts (V1)
PairInit ==
  /\ InitFor({<< >>}, {<< >>}, 0)
  /\ variant = "V1"
  /\ ~full

PairNext ==
  \/ Arrive
  \/ AdmitRun
  \/ InvokeRun
  \/ FinalizeRun
  \/ EndRun

PairSpec == PairInit /\ [][PairNext]_vars

\* The runs of a new user on the standard tier, with any tweets, whose
\* upstream emits one chunk event
FormatInit ==
  /\ InitWith(TweetSeqs)
  /\ ~full
  /\ db = UserRecord(FALSE, FALSE, FALSE, FALSE, EmptyAnalysis)
  /\ sent = << Chunk(<< "a" >>) >>

FormatSpec == FormatInit /\ [][Next]_vars

FairSpec ==
  /\ ShortInit
  /\ [][Next]_vars
  /\ WF_vars(Admit)
  /\ WF_vars(Invoke)
  /\ WF_vars(MaxDuration)

---------------------------------------------------------------------------
(* Properties *)

\* the events processed so far
Events(l) == [i \in 1..Len(l) |-> l[i].event]

\* the payloads of the entries of a log that were enqueued
RECURSIVE RelayedPayloads(_)
RelayedPayloads(l) ==
  IF l = << >> THEN << >>
  ELSE (IF Head(l).relayed THEN << Head(l).event.value >> ELSE << >>)
       \o RelayedPayloads(Tail(l))

\* the whole body read
BodyRead == pc = "done" /\ upstream = << >>

\* the events a variant processes when the whole body is one chunk
SingleChunkEvents ==
  Events(ProcessChunk([Locals EXCEPT !.buffer = << >>, !.log = << >>,
                                     !.finalOutput = FALSE,
                                     !.streamedContent = << >>,
                                     !.client = << >>],
                      variant, full, user, 1,
                      Decode(variant, << >>, WireOf(sent)),
                      [i \in 1..Len(sent) |-> "ok"]).log)

\* C1: when the whole body has been read, whatever the chunks it came in,
\* the events processed are those that the same bytes give as one chunk
\* (in the variants the claim cites: V1, V3, V4)
C1_ChunkingIndependent ==
  (BodyRead /\ variant \in {"V1", "V3", "V4"})
    => Events(log) = SingleChunkEvents

\* whether the last generation event labelled "output" of a log was a start
RECURSIVE LastOutputWasStart(_)
LastOutputWasStart(l) ==
  IF l = << >> THEN FALSE
  ELSE LET e == l[Len(l)].event
       IN  IF e.type = "generation" /\ e.label = "output"
           THEN e.state = "start"
           ELSE LastOutputWasStart(SubSeq(l, 1, Len(l) - 1))

\* C2: finalOutput starts false and is true exactly when the most recent
\* generation event labelled "output" was a start (V1 and V5, which the
\* claim cites)
C2_FlagFollowsOutputLabel ==
  variant \in {"V1", "V5"} => finalOutput = LastOutputWasStart(log)

\* C3: a chunk event is written to the client stream exactly when
\* finalOutput was true as it was processed, and nothing else is written
C3_RelayedIffInsideOutput ==
  \A i \in 1..Len(log) :
    log[i].relayed <=> (log[i].event.type = "chunk" /\ log[i].flag)

\* the events of the lines of a wire that parse
WellFormed(events) == SelectSeq(events, LAMBDA e : e # Malformed)

Saves == { i \in 1..Len(dbLog) : dbLog[i].kind = "save" }

\* C5: a finalization save that succeeds carries the analysis and both flags
\* of the run's tier, set, in the one call, no other call belongs to that
\* finalization, and the record it leaves has both flags set
C5_SaveCarriesFlagsAndAnalysis ==
  \A i \in Saves :
    dbLog[i].ok
      => /\ dbLog[i].arg[StartedKey(full)]
         /\ dbLog[i].arg[CompletedKey(full)]
         /\ dbLog[i].arg.analysis
              = AnalysisToSave(variant, full, user, dbLog[i].output,
                               dbLog[i].content)
         /\ dbLog[i].after.analysis = dbLog[i].arg.analysis
         /\ dbLog[i].after[StartedKey(full)]
         /\ dbLog[i].after[CompletedKey(full)]
         /\ (i < Len(dbLog) => dbLog[i + 1].kind = "save")

C5_Witness ==
  /\ Saves # {}
  /\ \E i \in Saves : dbLog[i].ok /\ ~dbLog[i].before[CompletedKey(full)]
  /\ db[StartedKey(full)] /\ db[CompletedKey(full)]

\* C6: a finalization save that fails is followed by a second call that
\* asks for both flags of the tier to be false; when that call succeeds the
\* record has both flags false and the analysis the user had before the run
C6_FailedSaveIsCompensated ==
  \A i \in Saves :
    ~dbLog[i].ok
      => /\ i < Len(dbLog)
         /\ dbLog[i + 1].kind = "revert"
         /\ ~dbLog[i + 1].arg[StartedKey(full)]
         /\ ~dbLog[i + 1].arg[CompletedKey(full)]
         /\ dbLog[i + 1].ok
              => /\ ~dbLog[i + 1].after[StartedKey(full)]
                 /\ ~dbLog[i + 1].after[CompletedKey(full)]
                 /\ dbLog[i + 1].after.analysis = dbLog[1].before.analysis

C6_Witness ==
  \E i \in Saves :
    /\ ~dbLog[i].ok
    /\ dbLog[i + 1].ok
    /\ dbLog[1].before.analysis # EmptyAnalysis
    /\ db = dbLog[i + 1].after

\* what the caller of the run can see of its end
SaveFailed == \E i \in Saves : ~dbLog[i].ok

\* C7: a run whose finalization save threw ends in a way its caller can
\* tell from success: POST did not answer with the stream, or the stream
\* was not closed, or it ended with an error
C7_FailureReported ==
  (pc = "done" /\ SaveFailed)
    => (response # "stream" \/ closeCount = 0 \/ startRejected)

\* C8: in the analysis stored by a successful finalization save every key of
\* values.output holds the value of values.output, and every other key of
\* the analysis the user had keeps its value (V1, V4 and V5, which the claim
\* cites)
C8_ShallowOverwrite ==
  variant \in {"V1", "V4", "V5"}
    => \A i \in Saves :
         dbLog[i].ok
           => LET existing == dbLog[1].before.analysis
                  patch == dbLog[i].output
                  stored == dbLog[i].after.analysis
              IN /\ \A k \in DOMAIN patch :
                      k \in DOMAIN stored /\ stored[k] = patch[k]
                 /\ \A k \in DOMAIN existing \ DOMAIN patch :
                      k \in DOMAIN stored /\ stored[k] = existing[k]

\* C9: merging the patch of a finalization save into the analysis that the
\* save wrote gives that same analysis
C9_MergeIdempotent ==
  \A i \in Saves :
    AnalysisToSave(variant, full,
                   [user EXCEPT !.analysis = dbLog[i].arg.analysis],
                   dbLog[i].output, dbLog[i].content)
      = dbLog[i].arg.analysis

C9_Witness ==
  \E i \in Saves :
    /\ dbLog[i].ok
    /\ user.analysis # EmptyAnalysis
    /\ dbLog[i].arg.analysis # user.analysis
    /\ dbLog[i].arg.analysis # dbLog[i].output

\* C10: a run makes at most one finalization save
C10_AtMostOneSave == Cardinality(Saves) <= 1

\* an Outputs event has been processed
OutputsObserved == \E i \in 1..Len(log) : log[i].event.type = "outputs"

\* the run streamed and is over
StreamOver == pc \in {"done", "killed"} /\ response = "stream"

\* C11: when a run that relayed text is over and no Outputs event was
\* processed, a finalization save was made whose analysis holds the text
\* relayed to the client
C11_FallbackPersistsRelayed ==
  (StreamOver /\ ~OutputsObserved /\ client # << >>)
    => \E i \in Saves :
         \E k \in DOMAIN dbLog[i].arg.analysis :
           dbLog[i].arg.analysis[k] = Flatten(client)

\* C12: a run whose upstream stalls still comes to have its client stream
\* closed
C12_StalledRunIsClosed == (pc = "stalled") ~> (closeCount = 1)

\* C13: the client stream is never closed twice, and it is closed when a
\* run that opened it is done, however the run ended (V1, V2 and V5, which
\* the claim cites)
C13_ClosedExactlyOnce ==
  variant \in {"V1", "V2", "V5"}
    => /\ closeCount <= 1
       /\ (pc = "done" /\ response = "stream") => closeCount = 1

\* the run has called runResponse.body.getReader(): V2 and V5 right after
\* fetch, V3 after the status check, V1 and V4 inside start(controller)
ReaderAcquired ==
  /\ runResponse # None
  /\ runResponse.body
  /\ \/ variant \in {"V2", "V5"}
     \/ variant = "V3" /\ runResponse.ok
     \/ response = "stream"

\* C14: when a run that acquired the reader of the upstream body is over,
\* the reader has been released (V1, V2 and V5, which the claim cites)
C14_ReaderReleased ==
  (variant \in {"V1", "V2", "V5"} /\ pc \in {"done", "returned"}
     /\ ReaderAcquired)
    => released = 1

\* C15: when the upstream answered with a non-success status, POST has
\* returned an error, no updateUser call was made and no client stream was
\* opened
C15_UpstreamErrorFailsAtOnce ==
  (runResponse # None /\ ~runResponse.ok)
    => /\ pc = "returned"
       /\ response \in {"upstreamError", "noReader", "threw"}
       /\ dbLog = << >>
       /\ db = user
       /\ closeCount = 0
       /\ client = << >>

C15_Witness ==
  /\ runResponse # None
  /\ ~runResponse.ok
  /\ runResponse.body
  /\ response = "upstreamError"

\* C16: when the upstream answered with a success status and no body, POST
\* has returned an error instead of the stream, no client stream was opened
\* and the run has set no started flag in the persisted record (V1, V3 and
\* V4, which the claim cites)
C16_MissingBodyFailsAtOnce ==
  (variant \in {"V1", "V3", "V4"} /\ runResponse # None
     /\ runResponse.ok /\ ~runResponse.body)
    => /\ pc = "returned"
       /\ response # "stream"
       /\ closeCount = 0
       /\ \A tier \in BOOLEAN : db[StartedKey(tier)] => user[StartedKey(tier)]

\* the admission checks have run and nothing after them
Checked == pc \in {"returned", "admitted"} /\ runResponse = None

\* C17: the request is rejected exactly when the completed flag of its tier
\* is set, or the started flag of its tier is set and the record is less
\* than 3 minutes old; otherwise it is admitted
C17_AdmissionGate ==
  Checked
    => LET rejected == pc = "returned" /\ response = "alreadyStarted"
           cooling == user[StartedKey(full)] /\ sinceCreation < 3
       IN  /\ rejected <=> (user[CompletedKey(full)] \/ cooling)
           /\ pc = "admitted" <=> ~rejected

C17_Witness ==
  /\ pc = "admitted"
  /\ runResponse = None
  /\ user[StartedKey(full)]
  /\ sinceCreation = 3

\* a line that is not JSON
MalformedLine == LineOf(Malformed)

\* no character of a processed chunk event was cut by the end of a chunk
Intact ==
  \A i \in 1..Len(log) :
    log[i].event.type = "chunk"
      => \A j \in 1..Len(log[i].event.value) :
           log[i].event.value[j] # UFFFD

\* the run over the wire without its malformed lines, read as one chunk
WithoutMalformed ==
  ProcessChunk([Locals EXCEPT !.buffer = << >>, !.log = << >>,
                              !.finalOutput = FALSE,
                              !.streamedContent = << >>,
                              !.client = << >>],
               variant, full, user, 1,
               Decode(variant, << >>, WireOf(WellFormed(sent))),
               [i \in 1..Len(sent) |-> "ok"])

\* C18: a malformed line read at the start of a line leaves every local of
\* the run and the persisted record as they are, and a run whose body has
\* been read has processed the events, written the client output and has
\* the flag of the same wire without its malformed lines (V1 and V5, which
\* the claim cites)
C18_MalformedLineDropped ==
  variant \in {"V1", "V5"}
    => /\ (pc = "streaming" /\ buffer = << >>)
            => ProcessChunk(Locals, variant, full, user, chunkCount,
                            Append(MalformedLine, LF), << >>) = Locals
       /\ (BodyRead /\ Intact)
            => /\ log = WithoutMalformed.log
               /\ client = WithoutMalformed.client
               /\ finalOutput = WithoutMalformed.finalOutput

C18_Witness ==
  /\ variant = "V1"
  /\ BodyRead
  /\ sent = << Generation("start", "output"), Malformed >>
  /\ finalOutput

\* the number of lines of the wire whose newline has been read
LinesRead ==
  LET wire == WireOf(sent)
      read == Len(wire) - Len(upstream)
  IN  Cardinality({ i \in 1..read : wire[i] = LF })

\* C19: every event processed comes from a line whose newline has been
\* read: there are no more processed events than well-formed lines ended
\* on the wire so far (V1 and V3, which the claim cites)
C19_OnlyTerminatedLines ==
  variant \in {"V1", "V3"}
    => Len(log) <= Len(WellFormed(SubSeq(sent, 1, LinesRead)))

\* C20: for a user without tweets the call to the upstream is issued, and
\* its inputs.tweets is the prefix "Tweets: " followed by the empty document
C20_EmptyDocumentIsSent ==
  (tweets = << >> /\ pc \notin {"request", "admitted"}
     /\ response # "alreadyStarted")
    => /\ runResponse # None
       /\ request = [tweets |-> << "Tweets: " >>]

C20_Witness ==
  /\ tweets = << >>
  /\ request # None
  /\ pc = "streaming"

\* C21: when a run of V1 (handleFinalOutput) that made a finalization save
\* is done, the started and completed flags of its tier in the persisted
\* record are both set, or both have the value they had before the run
C21_FlagsConsistent ==
  (variant = "V1" /\ pc = "done" /\ Saves # {})
    => LET before == dbLog[1].before
       IN  \/ db[StartedKey(full)] /\ db[CompletedKey(full)]
           \/ /\ db[StartedKey(full)] = before[StartedKey(full)]
              /\ db[CompletedKey(full)] = before[CompletedKey(full)]

\* C26: once the request to the upstream has been issued, the write that
\* sets the started flag has been made
C26_StartedBeforeFetch ==
  runResponse # None => (dbLog # << >> /\ dbLog[1].kind = "started")

\* C27: no updateUser call of a run changes the started or the completed
\* flag of the other tier (V1, V2 and V4, which the claim cites)
C27_OwnTierOnly ==
  variant \in {"V1", "V2", "V4"}
    => \A i \in 1..Len(dbLog) :
         /\ dbLog[i].after[StartedKey(~full)] = dbLog[i].before[StartedKey(~full)]
         /\ dbLog[i].after[CompletedKey(~full)]
              = dbLog[i].before[CompletedKey(~full)]

\* C23: once the client has cancelled the stream, no chunk is read from the
\* upstream
C23_NoReadAfterDisconnect == [][cancelled => upstream' = upstream]_vars

\* C25: no chunk event processed after an outputs event is relayed to the
\* client (V1, which the claim cites)
C25_NothingRelayedAfterOutputs ==
  variant = "V1"
    => \A i, j \in 1..Len(log) :
         (i < j /\ log[i].event.type = "outputs") => ~log[j].relayed

\* C29: every compensating write follows a finalization save that was made
\* and threw
C29_RevertOnlyAfterFailedSave ==
  \A i \in 1..Len(dbLog) :
    dbLog[i].kind = "revert"
      => (i > 1 /\ dbLog[i - 1].kind = "save" /\ ~dbLog[i - 1].ok)

\* the flag is set although the last generation event labelled "output" was
\* not a start: the safety valve has set it
Forced == finalOutput /\ ~LastOutputWasStart(log)

\* a generation start labelled "output" has been processed
Opened ==
  \E i \in 1..Len(log) : log[i].event = Generation("start", "output")

\* C24: when the safety valve of V5 has forced the flag, the run has
\* decoded FORCE_FINAL_OUTPUT_AFTER events or more and has never opened the
\* output phase
C24_ValveOnlyWhenNeverOpened ==
  (variant = "V5" /\ Forced)
    => (Len(log) >= FORCE_FINAL_OUTPUT_AFTER /\ ~Opened)

\* request i has passed the admission check and has not ended
InFlight(i) == runs[i].pc \in {"admitted", "streaming"}

\* C22: of two requests of the same user for the same tier, at most one
\* has passed the admission check and is in flight
C22_AtMostOneInFlight ==
  \A i, j \in DOMAIN runs :
    (i # j /\ runs[i].full = runs[j].full) => ~(InFlight(i) /\ InFlight(j))

\* run i ended with a failed save and a successful compensating write, which
\* is the last write to the record, and request j is for the same tier
AfterRevert(i, j) ==
  /\ i # j
  /\ runs[i].result = "reverted"
  /\ runs[i].end = Len(dbLog)
  /\ runs[j].full = runs[i].full

\* C28: the request for the same tier that is checked next after a run
\* whose save failed and whose compensating write succeeded is admitted
C28_AdmittedAfterRevert ==
  [][\A i, j \in DOMAIN runs :
       (AfterRevert(i, j) /\ runs[j].pc = "request"
          /\ runs'[j].pc # "request")
         => runs'[j].pc = "admitted"]_vars

C28_Witness ==
  \E i, j \in DOMAIN runs :
    /\ AfterRevert(i, j)
    /\ runs[j].pc = "admitted"
    /\ runs[j].at = runs[i].end
    /\ dbLog[runs[i].end].kind = "revert"
    /\ dbLog[runs[i].end].ok

\* runs i and j were in flight together: each passed its admission check
\* before the other made its last write
Together(i, j) == runs[i].at < runs[j].end /\ runs[j].at < runs[i].end

\* C30: when a standard and an extended run that were in flight together
\* have both saved, the record is completed for both tiers and its analysis
\* has the keys of both patches
C30_BothTiersKept ==
  \A i, j \in DOMAIN runs :
    (/\ ~runs[i].full /\ runs[j].full
     /\ runs[i].result = "saved" /\ runs[j].result = "saved"
     /\ Together(i, j))
      => /\ db[CompletedKey(FALSE)] /\ db[CompletedKey(TRUE)]
         /\ (DOMAIN PatchOf(FALSE) \cup DOMAIN PatchOf(TRUE))
              \subseteq DOMAIN db.analysis


\* C31: a completed flag that is true in the stored record is true after
\* every step of every request
C31_CompletedStaysTrue ==
  [][\A tier \in BOOLEAN :
       db[CompletedKey(tier)] => db'[CompletedKey(tier)]]_vars

\* C32: streamedContent is the text written to the client stream, and so is
\* the content passed to every finalization save (route.ts, V1)
C32_ContentIsWhatClientReceived ==
  variant = "V1"
    => /\ streamedContent = Flatten(client)
       /\ \A i \in Saves :
            \E n \in 0..Len(client) :
              dbLog[i].content = Flatten(SubSeq(client, 1, n))

\* a compensating write of the run has thrown
BothThrew ==
  \E i \in 1..Len(dbLog) : dbLog[i].kind = "revert" /\ ~dbLog[i].ok

\* every line of the body that holds an event has been processed, and every
\* chunk event that was to be relayed has been enqueued
AllLinesProcessed ==
  /\ Len(log) = Cardinality({ i \in 1..Len(sent) : sent[i] # Malformed })
  /\ \A i \in 1..Len(log) :
       (log[i].event.type = "chunk" /\ Relayed(variant, log[i].flag))
         => log[i].relayed

\* C33: when the save of an Outputs event and its compensating write have
\* both thrown, the end of the upstream body still finds every line
\* processed and closes the client stream (V1 and V5, which the claim cites)
C33_StreamingSurvivesFailedWrites ==
  [][(variant \in {"V1", "V5"} /\ BothThrew /\ EndOfStream)
       => (AllLinesProcessed /\ closeCount' = 1)]_vars

============================================================================
